---- MODULE Spec2Model ----
(***************************************************************************)
(* Shiksha-Pulse dashboard (app.py, Speech_analyzer.py, audio_detector.py, *)
(* emotion_detector.py).                                                   *)
(*                                                                         *)
(* Threads: the student loop (update_student_data), the Flask request      *)
(* handlers of POST /analyze-speech and GET /data (app.run(threaded=True)),*)
(* and one daemon thread per accepted trigger (analyze_speech.analyze).    *)
(* They share the dict dashboard_data, guarded by data_lock.  Every        *)
(* `with data_lock:` block is one step per statement of its body: the      *)
(* first step takes the lock, the last one releases it.  External calls    *)
(* (camera, microphone, transcription) and the sleeps taken while another  *)
(* thread may be waiting (lines 46, 182) are steps of their own; the       *)
(* sleeps between student iterations (lines 38, 133) are part of the       *)
(* position at the top of the loop.  print() and the loop counter `cycle`, *)
(* which is only printed, are not part of the state.                       *)
(***************************************************************************)
EXTENDS Integers, Sequences, FiniteSets, TLC

(***************************************************************************)
(* Bounds of the model.                                                    *)
(***************************************************************************)
\* POST /analyze-speech requests served at the same time
NHandlers == 1
\* analyze() threads that can exist at the same time
NTasks == 2
\* student commits (each advances the timestamp by one)
MaxTime == 1
\* POST /analyze-speech requests received in a run
MaxPosts == 2

(***************************************************************************)
(* Program constants.                                                      *)
(***************************************************************************)
BaseScore == 50
RecordSeconds == 10
SecondsPerMinute == 60

Handlers == 1..NHandlers
Tasks == 1..NTasks
\* Threads, as holders of data_lock
Getter == <<"get_data", 0>>
Student == <<"update_student_data", 0>>
Free == <<"free", 0>>
HandlerId(h) == <<"analyze_speech", h>>
TaskId(t) == <<"analyze", t>>

(***************************************************************************)
(* Inputs from the external collaborators.                                 *)
(***************************************************************************)
\* DeepFace dominant_emotion labels sampled by the running model: one of
\* the +20 group ("neutral" is also the default) and one of the -20 group.
Emotions == {"neutral", "angry"}
\* return states of check_classroom_audio sampled by the running model
AudioStates == {"silent", "active"}
\* len(text.split()) of a transcription of the 10 s recording.
WordCounts == {31}
\* outcome of recognize_google / librosa.load inside _analyze_pace
Transcriptions == {"ok", "UnknownValueError", "RequestError", "Exception"}
\* mean RMS energy, in thousandths
Energies == {100}
\* voiced pitch samples (Hz) picked by piptrack
PitchTracks == {<<100, 100>>}

(***************************************************************************)
(* Speech_analyzer.py                                                      *)
(***************************************************************************)
IntTrunc_ceil(num, den) == (num + den - 1) \div den

\* int(x) for a non-negative rational num/den
IntTrunc(num, den) == num \div den

PaceStatus_inclusive(word_count, seconds) ==
    LET num == IF seconds > 0 THEN word_count * SecondsPerMinute ELSE 0
        den == IF seconds > 0 THEN seconds ELSE 1
    IN  IF num >= 180 * den THEN "too_fast"
        ELSE IF num >= 160 * den THEN "fast"
        ELSE IF num <= 100 * den THEN "too_slow"
        ELSE IF num <= 120 * den THEN "slow"
        ELSE "good"

\* _analyze_pace, lines 132-161: wpm = word_count / duration_minutes, where
\* duration_minutes = seconds / 60.  wpm is the rational
\* (word_count * 60) / seconds; comparisons are cross-multiplied.
PaceStatus(word_count, seconds) ==
    LET num == IF seconds > 0 THEN word_count * SecondsPerMinute ELSE 0
        den == IF seconds > 0 THEN seconds ELSE 1
    IN  IF num > 180 * den THEN "too_fast"
        ELSE IF num > 160 * den THEN "fast"
        ELSE IF num < 100 * den THEN "too_slow"
        ELSE IF num < 120 * den THEN "slow"
        ELSE "good"

PaceWpm(word_count, seconds) ==
    IF seconds > 0 THEN IntTrunc(word_count * SecondsPerMinute, seconds) ELSE 0

\* _analyze_pace as a whole: the transcription outcome selects the return.
AnalyzePace(tr, word_count, seconds) ==
    IF tr = "ok"
    THEN [status |-> PaceStatus(word_count, seconds),
          wpm |-> PaceWpm(word_count, seconds),
          word_count |-> word_count]
    ELSE IF tr = "UnknownValueError"
    THEN [status |-> "unclear", wpm |-> 0, word_count |-> 0]
    ELSE [status |-> "error", wpm |-> 0, word_count |-> 0]

RECURSIVE SumSeq(_)
SumSeq(s) == IF s = << >> THEN 0 ELSE Head(s) + SumSeq(Tail(s))

RECURSIVE SumSquares(_)
SumSquares(s) == IF s = << >> THEN 0 ELSE Head(s) * Head(s) + SumSquares(Tail(s))

\* pitch_variation < 0.1, lines 204-209 and 225.  With n integer samples of
\* sum S and sum of squares Q, std/(mean + 1e-6) < 0.1 is
\* 100*(n*Q - S*S) < (S + n*1e-6)^2, and for integers that is
\* 100*(n*Q - S*S) <= S*S.  No sample: pitch_variation = 0 < 0.1.
IsMonotone(pitch_values) ==
    LET n == Len(pitch_values)
        S == SumSeq(pitch_values)
        Q == SumSquares(pitch_values)
    IN  IF n > 0 THEN 100 * (n * Q - S * S) <= S * S ELSE TRUE

\* pitch_variation of lines 204-209, kept as the fraction <<num, den>> of its
\* square (std/mean)^2 = (n*Q - S*S) / (S*S); <<0, 1>> is 0
PitchVariation(pitch_values) ==
    LET n == Len(pitch_values)
        S == SumSeq(pitch_values)
        Q == SumSquares(pitch_values)
    IN  IF n > 0 THEN <<n * Q - S * S, S * S>> ELSE <<0, 1>>

EnergyStatus_order(energy) ==
    IF energy < 50 THEN "quiet"
    ELSE IF energy < 20 THEN "too_quiet"
    ELSE IF energy > 150 THEN "too_loud"
    ELSE "good"

\* lines 215-222; energy in thousandths
EnergyStatus(energy) ==
    IF energy < 20 THEN "too_quiet"
    ELSE IF energy < 50 THEN "quiet"
    ELSE IF energy > 150 THEN "too_loud"
    ELSE "good"

\* _analyze_tone; ok = FALSE is an exception while loading or extracting.
AnalyzeTone(ok, energy, pitch_values) ==
    IF ok
    THEN [status |-> IF IsMonotone(pitch_values) THEN "monotone" ELSE "engaging",
          energy |-> energy,
          energy_status |-> EnergyStatus(energy),
          pitch_variation |-> PitchVariation(pitch_values),
          monotone |-> IsMonotone(pitch_values)]
    ELSE [status |-> "unknown", energy |-> 0, energy_status |-> "unknown",
          pitch_variation |-> <<0, 1>>,
          monotone |-> FALSE]

\* The messages of _generate_speech_nudge.  A message is <<template>> or
\* <<template, wpm>>; a nudge is the sequence of its " | "-joined messages.
PaceMessage(pace_result) ==
    IF pace_result.status = "too_fast"
    THEN << <<"You're speaking too fast (%d WPM). Slow down to help students absorb the material.", pace_result.wpm>> >>
    ELSE IF pace_result.status = "fast"
    THEN << <<"Speaking a bit quickly (%d WPM). Consider slowing down slightly.", pace_result.wpm>> >>
    ELSE IF pace_result.status = "too_slow"
    THEN << <<"Speaking quite slowly (%d WPM). You can speed up a bit to maintain engagement.", pace_result.wpm>> >>
    ELSE IF pace_result.status = "slow"
    THEN << <<"Pace is a bit slow (%d WPM). Try adding more energy.", pace_result.wpm>> >>
    ELSE IF pace_result.status = "unclear"
    THEN << <<"Could not analyze speech - please speak more clearly or check your microphone.">> >>
    ELSE << >>

MonotoneMessage(tone_result) ==
    IF tone_result.monotone
    THEN << <<"Your tone sounds monotonous. Try varying your pitch and enthusiasm!">> >>
    ELSE << >>

EnergyMessage(tone_result) ==
    IF tone_result.energy_status = "too_quiet"
    THEN << <<"You're speaking too quietly. Increase your volume or check your microphone.">> >>
    ELSE IF tone_result.energy_status = "too_loud"
    THEN << <<"Volume is quite high. Lower it slightly for comfort.">> >>
    ELSE << >>

AllGoodSpeech == << <<"Great speech pace and tone! Keep it up!">> >>

GenerateSpeechNudge_order(pace_result, tone_result) ==
    LET nudges == PaceMessage(pace_result) \o EnergyMessage(tone_result)
                    \o MonotoneMessage(tone_result)
    IN  IF nudges = << >> THEN AllGoodSpeech ELSE nudges

\* lines 255-283
GenerateSpeechNudge(pace_result, tone_result) ==
    LET nudges == PaceMessage(pace_result) \o MonotoneMessage(tone_result)
                    \o EnergyMessage(tone_result)
    IN  IF nudges = << >> THEN AllGoodSpeech ELSE nudges

\* analyze_teacher_speech, lines 29-68.  recorded = FALSE is _record_audio
\* raising; the keys energy and pitch_variation of the returned dict are not
\* read by app.py and are left out.
AnalyzeTeacherSpeech(recorded, tr, word_count, seconds, tone_ok, energy, pitch_values) ==
    IF recorded
    THEN LET pace_result == AnalyzePace(tr, word_count, seconds)
             tone_result == AnalyzeTone(tone_ok, energy, pitch_values)
         IN  [pace |-> pace_result.status, wpm |-> pace_result.wpm,
              tone |-> tone_result.status,
              nudge |-> GenerateSpeechNudge(pace_result, tone_result)]
    ELSE [pace |-> "unknown", wpm |-> 0, tone |-> "unknown",
          nudge |-> << <<"Could not analyze speech. Please check your microphone.">> >>]

\* every dict one call of analyze_teacher_speech(duration=10) can return
SpeechResults ==
    {AnalyzeTeacherSpeech(rec, tr, wc, RecordSeconds, ok, e, p) :
        rec \in BOOLEAN, tr \in Transcriptions, wc \in WordCounts,
        ok \in BOOLEAN, e \in Energies, p \in PitchTracks}

(***************************************************************************)
(* app.py: the Engagement Scorer inside update_student_data                *)
(***************************************************************************)
\* lines 72-75
EmotionImpact(emotion) ==
    IF emotion \in {"happy", "neutral", "surprise"} THEN 20
    ELSE IF emotion \in {"sad", "angry", "fear"} THEN -20
    ELSE 0

\* lines 78-81
AudioImpact(audio_state) ==
    IF audio_state = "silent" THEN -20
    ELSE IF audio_state = "active" THEN 10
    ELSE 0

PaceImpact_fast(teacher_pace) ==
    IF teacher_pace \in {"too_fast", "fast"} THEN -15
    ELSE IF teacher_pace \in {"too_slow", "slow"} THEN -10
    ELSE IF teacher_pace = "good" THEN 5
    ELSE 0

\* lines 91-96
PaceImpact(teacher_pace) ==
    IF teacher_pace = "too_fast" THEN -15
    ELSE IF teacher_pace = "too_slow" THEN -10
    ELSE IF teacher_pace = "good" THEN 5
    ELSE 0

\* lines 99-102
ToneImpact(teacher_tone) ==
    IF teacher_tone = "monotone" THEN -15
    ELSE IF teacher_tone = "engaging" THEN 10
    ELSE 0

Min(a, b) == IF a < b THEN a ELSE b
Max(a, b) == IF a > b THEN a ELSE b

Clamp_none(score) == score

\* line 104: max(0, min(100, score))
Clamp(score) == Max(0, Min(100, score))

MainNudge_inclusive(score) ==
    IF score <= 40 THEN "Low engagement! Try asking a question or showing an example."
    ELSE IF score <= 60 THEN "Engagement dropping. Consider a quick activity or recap."
    ELSE "All good! Keep going."

\* lines 107-111
MainNudge(score) ==
    IF score < 40 THEN "Low engagement! Try asking a question or showing an example."
    ELSE IF score < 60 THEN "Engagement dropping. Consider a quick activity or recap."
    ELSE "All good! Keep going."

(***************************************************************************)
(* State                                                                   *)
(***************************************************************************)
VARIABLES
    dashboard_data,  \* the global dict, lines 17-29
    data_lock,       \* holder of the threading.Lock of line 32, or Free
    spc,             \* position of the student loop
    slocal,          \* locals of update_student_data
    hpc,             \* position of each POST /analyze-speech handler
    hresp,           \* last JSON response of each POST handler
    gpc,             \* position of the GET /data handler
    gresp,           \* snapshot serialized by the GET handler in progress
    tpc,             \* position of each analyze() thread
    tresult,         \* local `result` of each analyze() thread
    posts,           \* number of POST /analyze-speech requests received
    frame            \* locals of analyze_teacher_speech when Speech_analyzer.py
                     \* runs as a script (test_speech_analyzer)

vars == <<dashboard_data, data_lock, spc, slocal, hpc, hresp, gpc, gresp, tpc, tresult, posts, frame>>

NoLocals ==
    [emotion |-> "", audio_state |-> "", score |-> 0, teacher_pace |-> "",
     teacher_tone |-> "", nudge |-> "", e |-> ""]

\* app.py never runs test_speech_analyzer
NoFrame == [pc |-> "not called"]

NoResult == [pace |-> "", wpm |-> 0, tone |-> "", nudge |-> << >>]
NoResponse == [status |-> "", message |-> ""]
NoSnapshot == [status |-> "no response"]

AlreadyAnalyzingResponse ==
    [status |-> "error", message |-> "Already analyzing speech. Please wait."]
StartedResponse ==
    [status |-> "success",
     message |-> "Speech analysis started. Recording will begin in 2 seconds..."]

\* lines 17-29
InitialData ==
    [engagement_score |-> BaseScore,
     emotion |-> "neutral",
     audio_state |-> "quiet",
     teacher_pace |-> "unknown",
     teacher_wpm |-> 0,
     teacher_tone |-> "unknown",
     nudge |-> "Click \"Analyze My Teaching\" to get started!",
     speech_nudge |-> << >>,
     timestamp |-> 0,
     status |-> "Ready",
     analyzing_speech |-> FALSE]

Init ==
    /\ dashboard_data = InitialData
    /\ data_lock = Free
    /\ spc = "peek"
    /\ slocal = NoLocals
    /\ hpc = [h \in Handlers |-> "idle"]
    /\ hresp = [h \in Handlers |-> NoResponse]
    /\ gpc = "idle"
    /\ gresp = NoSnapshot
    /\ tpc = [t \in Tasks |-> "idle"]
    /\ tresult = [t \in Tasks |-> NoResult]
    /\ posts = 0
    /\ frame = NoFrame

\* threading.Lock.acquire blocks until the lock is free
CanAcquire(lock) == lock = Free

(***************************************************************************)
(* update_student_data: the student loop, lines 34-133                     *)
(***************************************************************************)
\* Position "peek" is the top of an iteration: the thread sleeps (line 38
\* before the first iteration, line 133 after a completed one; nothing after
\* `continue`) and then waits for data_lock at line 44.
\* lines 44-46, flag set: time.sleep(5) is entered inside the with block.
\* A new iteration starts only while the clock of the model has not reached
\* MaxTime.
SPeekBusy ==
    /\ spc = "peek"
    /\ dashboard_data.timestamp < MaxTime
    /\ CanAcquire(data_lock)
    /\ dashboard_data.analyzing_speech
    /\ data_lock' = Student
    /\ spc' = "sleep5_locked"
    /\ UNCHANGED <<dashboard_data, slocal, hpc, hresp, gpc, gresp, tpc, tresult, posts, frame>>

SSkip_works ==
    /\ spc = "sleep5_locked"
    /\ data_lock' = Free
    /\ spc' = "status"
    /\ UNCHANGED <<dashboard_data, slocal, hpc, hresp, gpc, gresp, tpc, tresult, posts, frame>>

\* lines 46-47: time.sleep(5) returns, `continue` leaves the with block and
\* goes straight back to line 44 (line 133 is skipped)
SSkip ==
    /\ spc = "sleep5_locked"
    /\ data_lock' = Free
    /\ spc' = "peek"
    /\ UNCHANGED <<dashboard_data, slocal, hpc, hresp, gpc, gresp, tpc, tresult, posts, frame>>

\* lines 44-45, flag clear: the with block ends at once
SPeekIdle ==
    /\ spc = "peek"
    /\ dashboard_data.timestamp < MaxTime
    /\ CanAcquire(data_lock)
    /\ ~dashboard_data.analyzing_speech
    /\ spc' = "status"
    /\ UNCHANGED <<dashboard_data, data_lock, slocal, hpc, hresp, gpc, gresp, tpc, tresult, posts, frame>>

\* lines 55-56
SStatus ==
    /\ spc = "status"
    /\ CanAcquire(data_lock)
    /\ dashboard_data' = [dashboard_data EXCEPT !.status = "Analyzing students..."]
    /\ spc' = "emotion"
    /\ UNCHANGED <<data_lock, slocal, hpc, hresp, gpc, gresp, tpc, tresult, posts, frame>>

\* line 60: get_classroom_emotion() returns a label (it catches its errors)
SEmotion ==
    /\ spc = "emotion"
    /\ \E emotion \in Emotions : slocal' = [slocal EXCEPT !.emotion = emotion]
    /\ spc' = "audio"
    /\ UNCHANGED <<dashboard_data, data_lock, hpc, hresp, gpc, gresp, tpc, tresult, posts, frame>>

\* lines 65-81: check_classroom_audio returns; base score and the student
\* impacts
SAudio ==
    /\ spc = "audio"
    /\ \E audio_state \in AudioStates :
         slocal' = [slocal EXCEPT
                      !.audio_state = audio_state,
                      !.score = BaseScore + EmotionImpact(slocal.emotion)
                                  + AudioImpact(audio_state)]
    /\ spc' = "read"
    /\ UNCHANGED <<dashboard_data, data_lock, hpc, hresp, gpc, gresp, tpc, tresult, posts, frame>>

\* line 65: sd.rec / sd.wait raises (no input device); control goes to
\* line 125
SAudioRaises ==
    /\ spc = "audio"
    /\ slocal' = [NoLocals EXCEPT !.e = "PortAudioError"]
    /\ spc' = "except"
    /\ UNCHANGED <<dashboard_data, data_lock, hpc, hresp, gpc, gresp, tpc, tresult, posts, frame>>

\* lines 91-111 on the locals read at lines 85-88; the locals teacher_wpm
\* and speech_nudge (lines 86, 88) are never used and are not kept
ScoreLocals(loc, d) ==
    LET score == Clamp(loc.score + PaceImpact(d.teacher_pace) + ToneImpact(d.teacher_tone))
    IN  [loc EXCEPT !.teacher_pace = d.teacher_pace,
                    !.teacher_tone = d.teacher_tone,
                    !.score = score,
                    !.nudge = MainNudge(score)]

\* lines 84-111
SRead ==
    /\ spc = "read"
    /\ CanAcquire(data_lock)
    /\ slocal' = ScoreLocals(slocal, dashboard_data)
    /\ spc' = "commit"
    /\ UNCHANGED <<dashboard_data, data_lock, hpc, hresp, gpc, gresp, tpc, tresult, posts, frame>>

StudentWrite_teacher(d, line, loc) ==
    IF line = 115 THEN [d EXCEPT !.engagement_score = loc.score,
                                 !.teacher_pace = loc.teacher_pace]
    ELSE IF line = 116 THEN [d EXCEPT !.emotion = loc.emotion]
    ELSE IF line = 117 THEN [d EXCEPT !.audio_state = loc.audio_state]
    ELSE IF line = 118 THEN [d EXCEPT !.nudge = loc.nudge]
    ELSE IF line = 119 THEN [d EXCEPT !.timestamp = d.timestamp + 1]
    ELSE [d EXCEPT !.status = "Active"]

\* the assignment of each line of 115-120; time.time() is a clock that the
\* model advances by one per commit
StudentWrite(d, line, loc) ==
    IF line = 115 THEN [d EXCEPT !.engagement_score = loc.score]
    ELSE IF line = 116 THEN [d EXCEPT !.emotion = loc.emotion]
    ELSE IF line = 117 THEN [d EXCEPT !.audio_state = loc.audio_state]
    ELSE IF line = 118 THEN [d EXCEPT !.nudge = loc.nudge]
    ELSE IF line = 119 THEN [d EXCEPT !.timestamp = d.timestamp + 1]
    ELSE [d EXCEPT !.status = "Active"]

StudentCommitPc(line) ==
    IF line = 116 THEN "commit_116"
    ELSE IF line = 117 THEN "commit_117" ELSE IF line = 118 THEN "commit_118"
    ELSE IF line = 119 THEN "commit_119" ELSE "commit_120"

\* lines 114-115
SCommitFirst ==
    /\ spc = "commit"
    /\ CanAcquire(data_lock)
    /\ data_lock' = Student
    /\ dashboard_data' = StudentWrite(dashboard_data, 115, slocal)
    /\ spc' = StudentCommitPc(116)
    /\ UNCHANGED <<slocal, hpc, hresp, gpc, gresp, tpc, tresult, posts, frame>>

\* lines 116-119, one per step
SCommitLine ==
    \E line \in 116..119 :
        /\ spc = StudentCommitPc(line)
        /\ dashboard_data' = StudentWrite(dashboard_data, line, slocal)
        /\ spc' = StudentCommitPc(line + 1)
        /\ UNCHANGED <<data_lock, slocal, hpc, hresp, gpc, gresp, tpc, tresult, posts, frame>>

\* line 120 and the end of the with block; on to line 133
SCommitLast ==
    /\ spc = "commit_120"
    /\ dashboard_data' = StudentWrite(dashboard_data, 120, slocal)
    /\ data_lock' = Free
    /\ slocal' = NoLocals
    /\ spc' = "peek"
    /\ UNCHANGED <<hpc, hresp, gpc, gresp, tpc, tresult, posts, frame>>

\* f'Error: {str(e)}'
ErrorStatus(e) ==
    IF e = "PortAudioError" THEN "Error: PortAudioError" ELSE "Error: "

SExcept_resets ==
    /\ spc = "except"
    /\ CanAcquire(data_lock)
    /\ dashboard_data' = [dashboard_data EXCEPT !.status = ErrorStatus(slocal.e),
                                                !.engagement_score = 0,
                                                !.nudge = ""]
    /\ slocal' = NoLocals
    /\ spc' = "peek"
    /\ UNCHANGED <<data_lock, hpc, hresp, gpc, gresp, tpc, tresult, posts, frame>>

\* lines 125-130; on to line 133
SExcept ==
    /\ spc = "except"
    /\ CanAcquire(data_lock)
    /\ dashboard_data' = [dashboard_data EXCEPT !.status = ErrorStatus(slocal.e)]
    /\ slocal' = NoLocals
    /\ spc' = "peek"
    /\ UNCHANGED <<data_lock, hpc, hresp, gpc, gresp, tpc, tresult, posts, frame>>

update_student_data ==
    \/ SPeekBusy \/ SSkip \/ SPeekIdle \/ SStatus \/ SEmotion \/ SAudio
    \/ SAudioRaises \/ SRead \/ SCommitFirst \/ SCommitLine \/ SCommitLast
    \/ SExcept

(***************************************************************************)
(* get_data: GET /data, lines 141-145                                      *)
(***************************************************************************)
GCopy_nolock ==
    /\ gpc = "idle"
    /\ data_lock' = Getter
    /\ gresp' = dashboard_data
    /\ gpc' = "copied"
    /\ UNCHANGED <<dashboard_data, spc, slocal, hpc, hresp, tpc, tresult, posts, frame>>

\* lines 144-145: jsonify(dashboard_data) serializes the dict under the lock
GCopy ==
    /\ gpc = "idle"
    /\ CanAcquire(data_lock)
    /\ data_lock' = Getter
    /\ gresp' = dashboard_data
    /\ gpc' = "copied"
    /\ UNCHANGED <<dashboard_data, spc, slocal, hpc, hresp, tpc, tresult, posts, frame>>

\* line 145: return leaves the with block; the response goes to the client
GReturn ==
    /\ gpc = "copied"
    /\ data_lock' = Free
    /\ gresp' = NoSnapshot
    /\ gpc' = "idle"
    /\ UNCHANGED <<dashboard_data, spc, slocal, hpc, hresp, tpc, tresult, posts, frame>>

get_data == GCopy \/ GReturn

(***************************************************************************)
(* analyze_speech: POST /analyze-speech, lines 148-220                     *)
(***************************************************************************)
AlreadyAnalyzing_never(d) == FALSE

\* line 156
AlreadyAnalyzing(d) == d.analyzing_speech

\* Flask serves each request on a thread of its own; the model hands a new
\* request to the first handler that is not serving one.
FirstIdle(h) ==
    /\ hpc[h] = "idle"
    /\ \A u \in Handlers : hpc[u] = "idle" => h <= u

HReject_writes(h) ==
    /\ FirstIdle(h)
    /\ posts < MaxPosts
    /\ CanAcquire(data_lock)
    /\ AlreadyAnalyzing(dashboard_data)
    /\ posts' = posts + 1
    /\ dashboard_data' = [dashboard_data EXCEPT !.status = "Get ready to speak..."]
    /\ hresp' = [hresp EXCEPT ![h] = AlreadyAnalyzingResponse]
    /\ UNCHANGED <<data_lock, spc, slocal, hpc, gpc, gresp, tpc, tresult, frame>>

\* lines 155-160: a request arrives, takes the lock and returns inside the
\* with block
HReject(h) ==
    /\ FirstIdle(h)
    /\ posts < MaxPosts
    /\ CanAcquire(data_lock)
    /\ AlreadyAnalyzing(dashboard_data)
    /\ posts' = posts + 1
    /\ hresp' = [hresp EXCEPT ![h] = AlreadyAnalyzingResponse]
    /\ UNCHANGED <<dashboard_data, data_lock, spc, slocal, hpc, gpc, gresp, tpc, tresult, frame>>

\* lines 155-156 and 163: a request arrives, takes the lock and sets the flag
HAccept(h) ==
    /\ FirstIdle(h)
    /\ posts < MaxPosts
    /\ CanAcquire(data_lock)
    /\ ~AlreadyAnalyzing(dashboard_data)
    /\ posts' = posts + 1
    /\ data_lock' = HandlerId(h)
    /\ dashboard_data' = [dashboard_data EXCEPT !.analyzing_speech = TRUE]
    /\ hresp' = [hresp EXCEPT ![h] = NoResponse]
    /\ hpc' = [hpc EXCEPT ![h] = "set_164"]
    /\ UNCHANGED <<spc, slocal, gpc, gresp, tpc, tresult, frame>>

\* line 164
HSetStatus(h) ==
    /\ hpc[h] = "set_164"
    /\ dashboard_data' = [dashboard_data EXCEPT !.status = "Get ready to speak..."]
    /\ hpc' = [hpc EXCEPT ![h] = "set_165"]
    /\ UNCHANGED <<data_lock, spc, slocal, hresp, gpc, gresp, tpc, tresult, posts, frame>>

\* line 165 and the end of the with block
HSetNudge(h) ==
    /\ hpc[h] = "set_165"
    /\ dashboard_data' =
         [dashboard_data EXCEPT !.speech_nudge = << <<"Preparing to record...">> >>]
    /\ data_lock' = Free
    /\ hpc' = [hpc EXCEPT ![h] = "spawn"]
    /\ UNCHANGED <<spc, slocal, hresp, gpc, gresp, tpc, tresult, posts, frame>>

\* lines 214-215: threading.Thread(target=analyze).start(); the new thread
\* takes the first unused slot of the model
HSpawn(h) ==
    /\ hpc[h] = "spawn"
    /\ \E t \in Tasks :
         /\ tpc[t] = "idle"
         /\ \A u \in Tasks : tpc[u] = "idle" => t <= u
         /\ tpc' = [tpc EXCEPT ![t] = "begin"]
    /\ hpc' = [hpc EXCEPT ![h] = "return"]
    /\ UNCHANGED <<dashboard_data, data_lock, spc, slocal, hresp, gpc, gresp, tresult, posts, frame>>

\* lines 217-220
HReturn(h) ==
    /\ hpc[h] = "return"
    /\ hresp' = [hresp EXCEPT ![h] = StartedResponse]
    /\ hpc' = [hpc EXCEPT ![h] = "idle"]
    /\ UNCHANGED <<dashboard_data, data_lock, spc, slocal, gpc, gresp, tpc, tresult, posts, frame>>

analyze_speech(h) ==
    \/ HReject(h) \/ HAccept(h) \/ HSetStatus(h) \/ HSetNudge(h)
    \/ HSpawn(h) \/ HReturn(h)

(***************************************************************************)
(* analyze_speech.analyze: the speech thread, lines 168-211                *)
(***************************************************************************)
\* lines 177-178
TStatus(t) ==
    /\ tpc[t] = "begin"
    /\ CanAcquire(data_lock)
    /\ data_lock' = TaskId(t)
    /\ dashboard_data' = [dashboard_data EXCEPT !.status = "Recording your speech..."]
    /\ tpc' = [tpc EXCEPT ![t] = "status_179"]
    /\ UNCHANGED <<spc, slocal, hpc, hresp, gpc, gresp, tresult, posts, frame>>

\* line 179 and the end of the with block
TStatusNudge(t) ==
    /\ tpc[t] = "status_179"
    /\ dashboard_data' =
         [dashboard_data EXCEPT
            !.speech_nudge = << <<"Recording for 10 seconds... Speak naturally!">> >>]
    /\ data_lock' = Free
    /\ tpc' = [tpc EXCEPT ![t] = "sleep2"]
    /\ UNCHANGED <<spc, slocal, hpc, hresp, gpc, gresp, tresult, posts, frame>>

\* line 182
TSleep(t) ==
    /\ tpc[t] = "sleep2"
    /\ tpc' = [tpc EXCEPT ![t] = "analyze"]
    /\ UNCHANGED <<dashboard_data, data_lock, spc, slocal, hpc, hresp, gpc, gresp, tresult, posts, frame>>

\* line 185: speech_analyzer.analyze_teacher_speech(duration=10) returns
TAnalyze(t) ==
    /\ tpc[t] = "analyze"
    /\ \E result \in SpeechResults : tresult' = [tresult EXCEPT ![t] = result]
    /\ tpc' = [tpc EXCEPT ![t] = "commit"]
    /\ UNCHANGED <<dashboard_data, data_lock, spc, slocal, hpc, hresp, gpc, gresp, posts, frame>>

\* lines 171-203: an exception inside the try block (one that
\* analyze_teacher_speech does not convert) reaches the handler of line 203
TAnalyzeRaises(t) ==
    /\ tpc[t] = "analyze"
    /\ tpc' = [tpc EXCEPT ![t] = "except"]
    /\ UNCHANGED <<dashboard_data, data_lock, spc, slocal, hpc, hresp, gpc, gresp, tresult, posts, frame>>

ClearFlag_skip(d) == d

\* lines 199 and 211
ClearFlag(d) == [d EXCEPT !.analyzing_speech = FALSE]

\* the assignment of each line of 194-199
SpeechWrite(d, line, result) ==
    IF line = 194 THEN [d EXCEPT !.teacher_pace = result.pace]
    ELSE IF line = 195 THEN [d EXCEPT !.teacher_wpm = result.wpm]
    ELSE IF line = 196 THEN [d EXCEPT !.teacher_tone = result.tone]
    ELSE IF line = 197 THEN [d EXCEPT !.speech_nudge = result.nudge]
    ELSE IF line = 198 THEN [d EXCEPT !.status = "Analysis complete!"]
    ELSE ClearFlag(d)

SpeechCommitPc(line) ==
    IF line = 195 THEN "commit_195"
    ELSE IF line = 196 THEN "commit_196" ELSE IF line = 197 THEN "commit_197"
    ELSE IF line = 198 THEN "commit_198" ELSE "commit_199"

\* lines 193-194
TCommitFirst(t) ==
    /\ tpc[t] = "commit"
    /\ CanAcquire(data_lock)
    /\ data_lock' = TaskId(t)
    /\ dashboard_data' = SpeechWrite(dashboard_data, 194, tresult[t])
    /\ tpc' = [tpc EXCEPT ![t] = SpeechCommitPc(195)]
    /\ UNCHANGED <<spc, slocal, hpc, hresp, gpc, gresp, tresult, posts, frame>>

\* lines 195-198, one per step
TCommitLine(t) ==
    \E line \in 195..198 :
        /\ tpc[t] = SpeechCommitPc(line)
        /\ dashboard_data' = SpeechWrite(dashboard_data, line, tresult[t])
        /\ tpc' = [tpc EXCEPT ![t] = SpeechCommitPc(line + 1)]
        /\ UNCHANGED <<data_lock, spc, slocal, hpc, hresp, gpc, gresp, tresult, posts, frame>>

\* line 199 and the end of the with block; the thread ends after line 201
TCommitLast(t) ==
    /\ tpc[t] = "commit_199"
    /\ dashboard_data' = SpeechWrite(dashboard_data, 199, tresult[t])
    /\ data_lock' = Free
    /\ tresult' = [tresult EXCEPT ![t] = NoResult]
    /\ tpc' = [tpc EXCEPT ![t] = "idle"]
    /\ UNCHANGED <<spc, slocal, hpc, hresp, gpc, gresp, posts, frame>>

\* lines 208-209: f'Error analyzing speech: {str(e)}'
TExceptFirst(t) ==
    /\ tpc[t] = "except"
    /\ CanAcquire(data_lock)
    /\ data_lock' = TaskId(t)
    /\ dashboard_data' =
         [dashboard_data EXCEPT !.speech_nudge = << <<"Error analyzing speech: ">> >>]
    /\ tpc' = [tpc EXCEPT ![t] = "except_210"]
    /\ UNCHANGED <<spc, slocal, hpc, hresp, gpc, gresp, tresult, posts, frame>>

\* line 210
TExceptStatus(t) ==
    /\ tpc[t] = "except_210"
    /\ dashboard_data' = [dashboard_data EXCEPT !.status = "Error occurred"]
    /\ tpc' = [tpc EXCEPT ![t] = "except_211"]
    /\ UNCHANGED <<data_lock, spc, slocal, hpc, hresp, gpc, gresp, tresult, posts, frame>>

\* line 211 and the end of the with block; the thread ends
TExceptLast(t) ==
    /\ tpc[t] = "except_211"
    /\ dashboard_data' = ClearFlag(dashboard_data)
    /\ data_lock' = Free
    /\ tresult' = [tresult EXCEPT ![t] = NoResult]
    /\ tpc' = [tpc EXCEPT ![t] = "idle"]
    /\ UNCHANGED <<spc, slocal, hpc, hresp, gpc, gresp, posts, frame>>

analyze(t) ==
    \/ TStatus(t) \/ TStatusNudge(t) \/ TSleep(t) \/ TAnalyze(t)
    \/ TAnalyzeRaises(t) \/ TCommitFirst(t) \/ TCommitLine(t) \/ TCommitLast(t)
    \/ TExceptFirst(t) \/ TExceptStatus(t) \/ TExceptLast(t)

(***************************************************************************)
(* Specification                                                           *)
(***************************************************************************)
Next ==
    \/ update_student_data
    \/ get_data
    \/ \E h \in Handlers : analyze_speech(h)
    \/ \E t \in Tasks : analyze(t)

Spec == Init /\ [][Next]_vars

\* The same program with no GET /data request and at most MaxPosts POST
\* requests: the only thread that runs forever is the student loop.
NextQuiet ==
    \/ update_student_data
    \/ \E h \in Handlers : analyze_speech(h)
    \/ \E t \in Tasks : analyze(t)

\* Every thread that can take a step eventually takes one.  Requests arrive
\* or not as the clients please.  threading.Lock promises nothing about who
\* gets a released lock, so a thread blocked in acquire is only weakly fair.
FairSpec ==
    /\ Init
    /\ [][NextQuiet]_vars
    /\ WF_vars(update_student_data)
    /\ \A t \in Tasks : WF_vars(analyze(t))
    /\ \A h \in Handlers :
         WF_vars(HSetStatus(h) \/ HSetNudge(h) \/ HSpawn(h) \/ HReturn(h))

(***************************************************************************)
(* The Engagement Scorer on every label: the student loop on its own, after *)
(* a speech cycle has left its result in the dict.                         *)
(***************************************************************************)
\* the dominant_emotion labels of DeepFace
EmotionLabels == {"angry", "disgust", "fear", "happy", "sad", "surprise", "neutral"}
\* the return states of check_classroom_audio
AudioLabels == {"silent", "quiet", "active"}
\* word counts of a 10 s recording, one per pace band: 90, 114, 144, 168 and
\* 186 words per minute
BandWordCounts == {15, 19, 24, 28, 31}
\* a flat and a varied pitch track
BandPitchTracks == {<<100, 100>>, <<100, 200>>}

\* the dicts analyze_teacher_speech(duration=10) returns on those recordings
BandSpeechResults ==
    {AnalyzeTeacherSpeech(rec, tr, wc, RecordSeconds, ok, e, p) :
        rec \in BOOLEAN, tr \in Transcriptions, wc \in BandWordCounts,
        ok \in BOOLEAN, e \in Energies, p \in BandPitchTracks}

\* the dict after a speech cycle that started from the initial dict and
\* committed `result`: lines 163-165, 178-179 and 194-199
AfterSpeechCycle(result) ==
    [InitialData EXCEPT !.teacher_pace = result.pace,
                        !.teacher_wpm = result.wpm,
                        !.teacher_tone = result.tone,
                        !.speech_nudge = result.nudge,
                        !.status = "Analysis complete!"]

ScorerInit ==
    /\ dashboard_data \in {AfterSpeechCycle(result) : result \in BandSpeechResults}
    /\ data_lock = Free
    /\ spc = "peek"
    /\ slocal = NoLocals
    /\ hpc = [h \in Handlers |-> "idle"]
    /\ hresp = [h \in Handlers |-> NoResponse]
    /\ gpc = "idle"
    /\ gresp = NoSnapshot
    /\ tpc = [t \in Tasks |-> "idle"]
    /\ tresult = [t \in Tasks |-> NoResult]
    /\ posts = 0
    /\ frame = NoFrame

\* line 60 with every label
SEmotionAny ==
    /\ spc = "emotion"
    /\ \E emotion \in EmotionLabels : slocal' = [slocal EXCEPT !.emotion = emotion]
    /\ spc' = "audio"
    /\ UNCHANGED <<dashboard_data, data_lock, hpc, hresp, gpc, gresp, tpc, tresult, posts, frame>>

\* lines 65-81 with every state
SAudioAny ==
    /\ spc = "audio"
    /\ \E audio_state \in AudioLabels :
         slocal' = [slocal EXCEPT
                      !.audio_state = audio_state,
                      !.score = BaseScore + EmotionImpact(slocal.emotion)
                                  + AudioImpact(audio_state)]
    /\ spc' = "read"
    /\ UNCHANGED <<dashboard_data, data_lock, hpc, hresp, gpc, gresp, tpc, tresult, posts, frame>>

ScorerNext ==
    \/ SPeekIdle \/ SStatus \/ SEmotionAny \/ SAudioAny \/ SRead
    \/ SCommitFirst \/ SCommitLine \/ SCommitLast

ScorerSpec == ScorerInit /\ [][ScorerNext]_vars

(***************************************************************************)
(* Speech_analyzer.py run as a script: test_speech_analyzer calls          *)
(* analyze_teacher_speech once; frame holds the locals of that call.       *)
(***************************************************************************)
\* most words a transcription holds
MaxWords == 300
AllWordCounts == 0..MaxWords
\* len(y) / sample_rate of the recorded file, in seconds
Durations == {0, 10, 60, 90}
\* mean RMS energy, in thousandths, on both sides of 0.02, 0.05 and 0.15
AllEnergies == {19, 21, 49, 51, 149, 151}
\* voiced pitch samples (Hz): none, flat, std/mean 0.09 and 0.11
AllPitchTracks == {<< >>, <<100, 100>>, <<100, 120>>, <<100, 125>>}

NoPace == [status |-> "", wpm |-> 0, word_count |-> 0]
NoTone == [status |-> "", energy |-> 0, energy_status |-> "",
           pitch_variation |-> <<0, 1>>, monotone |-> FALSE]

\* line 303: analyze_teacher_speech is entered
StartFrame ==
    [pc |-> "record", seconds |-> 0, tr |-> "", word_count |-> 0,
     tone_ok |-> FALSE, energy |-> 0, pitch_values |-> << >>,
     pace_result |-> NoPace, tone_result |-> NoTone, nudge |-> << >>]

AnalyzerInit ==
    /\ dashboard_data = InitialData
    /\ data_lock = Free
    /\ spc = "peek"
    /\ slocal = NoLocals
    /\ hpc = [h \in Handlers |-> "idle"]
    /\ hresp = [h \in Handlers |-> NoResponse]
    /\ gpc = "idle"
    /\ gresp = NoSnapshot
    /\ tpc = [t \in Tasks |-> "idle"]
    /\ tresult = [t \in Tasks |-> NoResult]
    /\ posts = 0
    /\ frame = StartFrame

\* line 31: _record_audio returns the file; what the later steps will find
\* in it is fixed here: its length, what recognize_google makes of it (a
\* text of word_count words, or an exception), whether librosa can extract
\* the features, the mean energy and the voiced pitch samples
ARecord ==
    /\ frame.pc = "record"
    /\ \E seconds \in Durations, tr \in Transcriptions, tone_ok \in BOOLEAN :
         \E word_count \in (IF tr = "ok" THEN AllWordCounts ELSE {0}),
            energy \in (IF tone_ok THEN AllEnergies ELSE {0}),
            pitch_values \in (IF tone_ok THEN AllPitchTracks ELSE {<< >>}) :
              frame' = [frame EXCEPT !.pc = "pace", !.seconds = seconds, !.tr = tr,
                                     !.word_count = word_count, !.tone_ok = tone_ok,
                                     !.energy = energy, !.pitch_values = pitch_values]
    /\ UNCHANGED <<dashboard_data, data_lock, spc, slocal, hpc, hresp, gpc, gresp, tpc, tresult, posts>>

\* lines 31, 109-111 and 57-68: _record_audio raises and the default dict
\* is returned
ARecordRaises ==
    /\ frame.pc = "record"
    /\ frame' = [frame EXCEPT
                   !.pc = "returned_default",
                   !.nudge = << <<"Could not analyze speech. Please check your microphone.">> >>]
    /\ UNCHANGED <<dashboard_data, data_lock, spc, slocal, hpc, hresp, gpc, gresp, tpc, tresult, posts>>

\* line 34
APace ==
    /\ frame.pc = "pace"
    /\ frame' = [frame EXCEPT
                   !.pc = "tone",
                   !.pace_result = AnalyzePace(frame.tr, frame.word_count, frame.seconds)]
    /\ UNCHANGED <<dashboard_data, data_lock, spc, slocal, hpc, hresp, gpc, gresp, tpc, tresult, posts>>

\* line 37
ATone ==
    /\ frame.pc = "tone"
    /\ frame' = [frame EXCEPT
                   !.pc = "nudge",
                   !.tone_result = AnalyzeTone(frame.tone_ok, frame.energy, frame.pitch_values)]
    /\ UNCHANGED <<dashboard_data, data_lock, spc, slocal, hpc, hresp, gpc, gresp, tpc, tresult, posts>>

\* line 40
ANudge ==
    /\ frame.pc = "nudge"
    /\ frame' = [frame EXCEPT
                   !.pc = "return",
                   !.nudge = GenerateSpeechNudge(frame.pace_result, frame.tone_result)]
    /\ UNCHANGED <<dashboard_data, data_lock, spc, slocal, hpc, hresp, gpc, gresp, tpc, tresult, posts>>

\* lines 43-55: the dict is built from pace_result, tone_result and nudge
AReturn ==
    /\ frame.pc = "return"
    /\ frame' = [frame EXCEPT !.pc = "returned"]
    /\ UNCHANGED <<dashboard_data, data_lock, spc, slocal, hpc, hresp, gpc, gresp, tpc, tresult, posts>>

analyze_teacher_speech ==
    \/ ARecord \/ ARecordRaises \/ APace \/ ATone \/ ANudge \/ AReturn

AnalyzerSpec == AnalyzerInit /\ [][analyze_teacher_speech]_vars

(***************************************************************************)
(* Properties                                                              *)
(***************************************************************************)
busy_flag == dashboard_data.analyzing_speech

\* analyze() threads that have been started and have not finished
InFlight == {t \in Tasks : tpc[t] # "idle"}

\* handlers that have set the flag and have not yet started their thread
Accepting == {h \in Handlers : hpc[h] \in {"set_164", "set_165", "spawn"}}

C2_FlagEventuallyClears == busy_flag ~> ~busy_flag

\* the work section of a student iteration: from the end of the peek to the
\* last write of the commit
StudentWorkSection ==
    {"status", "emotion", "audio", "read", "commit", "commit_116", "commit_117",
     "commit_118", "commit_119", "commit_120"}

\* C3: the student loop is never inside its work section while busy_flag is
\* true.
C3_StudentSkipsWhileBusy == ~(spc \in StudentWorkSection /\ busy_flag)

\* positions at which a thread sleeps or waits for an external call
StudentBlocking == {"peek", "sleep5_locked", "emotion", "audio"}
TaskBlocking == {"sleep2", "analyze"}

\* C4: no thread holds data_lock while it sleeps or runs an external call.
C4_NoLockWhileBlocking ==
    /\ data_lock = Student => spc \notin StudentBlocking
    /\ \A t \in Tasks : data_lock = TaskId(t) => tpc[t] \notin TaskBlocking

\* C5: busy_flag is true exactly while an accepted speech cycle has not made
\* its terminal commit: from the handler's write of line 163 to the thread's
\* write of line 199 or 211.
C5_FlagIffCycleActive == busy_flag <=> (InFlight # {} \/ Accepting # {})

\* a cycle ended through the handler of line 203 and the flag is clear
C5_Witness ==
    /\ ~busy_flag
    /\ dashboard_data.status = "Error occurred"
    /\ InFlight = {}

teacher_fields(d) == <<d.teacher_pace, d.teacher_wpm, d.teacher_tone>>

TerminalCommit == {"commit", "commit_195", "commit_196", "commit_197", "commit_198", "commit_199"}

\* C6: no step of the student loop changes teacher_pace, teacher_wpm,
\* teacher_tone or speech_nudge, and the three teacher fields change only in
\* a step of a speech thread's terminal commit.
C6_StudentKeepsTeacherFields ==
    [][/\ spc' # spc =>
            /\ teacher_fields(dashboard_data') = teacher_fields(dashboard_data)
            /\ dashboard_data'.speech_nudge = dashboard_data.speech_nudge
       /\ teacher_fields(dashboard_data') # teacher_fields(dashboard_data) =>
            \E t \in Tasks : tpc[t] \in TerminalCommit /\ tpc'[t] # tpc[t]]_vars

\* the student loop is committing, busy_flag is true and an earlier speech
\* cycle has left its result
C6_Witness ==
    /\ spc = "commit_120"
    /\ busy_flag
    /\ dashboard_data.teacher_pace = "too_fast"

\* C7: the terminal commit of a speech thread and the commit of the student
\* loop run under one acquisition of data_lock, and GET /data copies the
\* dict under the same lock: the copy is the dict as it stands, no writer is
\* part-way through a commit, and no copy shows the status of a finished
\* cycle with the flag still set.
C7_SnapshotAtomic ==
    /\ \A t \in Tasks : tpc[t] \in (TerminalCommit \ {"commit"}) => data_lock = TaskId(t)
    /\ spc \in {"commit_116", "commit_117", "commit_118", "commit_119", "commit_120"}
         => data_lock = Student
    /\ gpc = "copied" =>
         /\ data_lock = Getter
         /\ gresp = dashboard_data
         /\ ~(gresp.status = "Analysis complete!" /\ gresp.analyzing_speech)

\* GET /data returns the snapshot of a finished speech cycle
C7_Witness ==
    /\ gpc = "copied"
    /\ gresp.status = "Analysis complete!"
    /\ ~gresp.analyzing_speech
    /\ gresp.teacher_pace = "too_fast"

\* C8: a trigger that finds busy_flag true returns the already-analyzing
\* error and changes no field of the snapshot and starts nothing; a trigger
\* that finds it false sets it, and its handler, once the thread is started,
\* can return the acknowledgment whatever the speech thread is doing.
C8_RejectLeavesSnapshot ==
    [][/\ (posts' # posts /\ busy_flag) =>
            /\ dashboard_data' = dashboard_data
            /\ hpc' = hpc /\ tpc' = tpc
            /\ \E h \in Handlers : hresp' = [hresp EXCEPT ![h] = AlreadyAnalyzingResponse]
       /\ (posts' # posts /\ ~busy_flag) => dashboard_data'.analyzing_speech
       /\ \A h \in Handlers :
            /\ (hpc[h] = "return" /\ hpc'[h] # "return") => hresp'[h] = StartedResponse
            /\ hpc[h] = "return" => ENABLED HReturn(h)]_vars

\* a trigger was rejected while the flag was set
C8_Witness ==
    /\ busy_flag
    /\ \E h \in Handlers : hresp[h] = AlreadyAnalyzingResponse

\* C9: after a speech cycle that failed, the teacher fields are degraded
\* values.  A cycle that ended in the handler of line 203 leaves status
\* "Error occurred"; a cycle whose result reports a pace failure has wpm 0.
C9_FailedCycleDegrades ==
    /\ (~busy_flag /\ dashboard_data.status = "Error occurred") =>
         /\ dashboard_data.teacher_pace \in {"unknown", "unclear", "error"}
         /\ dashboard_data.teacher_wpm = 0
         /\ dashboard_data.teacher_tone = "unknown"
    /\ (~busy_flag /\ dashboard_data.status = "Analysis complete!"
          /\ dashboard_data.teacher_pace \in {"unknown", "unclear", "error"}) =>
         dashboard_data.teacher_wpm = 0

\* C10: engagement_score is in 0..100 in every snapshot, stored or served.
C10_ScoreInRange ==
    /\ dashboard_data.engagement_score \in 0..100
    /\ gpc = "copied" => gresp.engagement_score \in 0..100

\* a commit whose sum was below 0
C10_Witness ==
    /\ dashboard_data.engagement_score = 0
    /\ dashboard_data.emotion = "angry"
    /\ dashboard_data.audio_state = "silent"
    /\ dashboard_data.teacher_pace = "too_fast"
    /\ dashboard_data.teacher_tone = "monotone"
    /\ dashboard_data.timestamp > 0

\* the impacts as the scoring table states them
C11_e(emotion) ==
    IF emotion \in {"happy", "neutral", "surprise"} THEN 20
    ELSE IF emotion \in {"sad", "angry", "fear"} THEN -20 ELSE 0
C11_a(audio_state) ==
    IF audio_state = "silent" THEN -20 ELSE IF audio_state = "active" THEN 10 ELSE 0
C11_p(teacher_pace) ==
    IF teacher_pace = "too_fast" THEN -15 ELSE IF teacher_pace = "too_slow" THEN -10
    ELSE IF teacher_pace = "good" THEN 5 ELSE 0
C11_t(teacher_tone) ==
    IF teacher_tone = "monotone" THEN -15 ELSE IF teacher_tone = "engaging" THEN 10 ELSE 0
C11_clamp(x) == IF x < 0 THEN 0 ELSE IF x > 100 THEN 100 ELSE x
C11_score(emotion, audio_state, teacher_pace, teacher_tone) ==
    C11_clamp(50 + C11_e(emotion) + C11_a(audio_state) + C11_p(teacher_pace)
                + C11_t(teacher_tone))

StudentCommitting ==
    {"commit", "commit_116", "commit_117", "commit_118", "commit_119", "commit_120"}

\* C11: the score a student cycle computes, and the one it commits, is
\* clamp(50 + e + a + p + t, 0, 100) of its emotion label, its audio state
\* and the teacher pace and tone it read; happy/active/good/engaging gives
\* 95 and angry/silent/too_fast/monotone gives 0.
C11_ScoreIsClampedSum ==
    /\ spc \in StudentCommitting =>
         /\ slocal.score = C11_score(slocal.emotion, slocal.audio_state,
                                     slocal.teacher_pace, slocal.teacher_tone)
         /\ (slocal.emotion = "happy" /\ slocal.audio_state = "active"
               /\ slocal.teacher_pace = "good" /\ slocal.teacher_tone = "engaging")
              => slocal.score = 95
         /\ (slocal.emotion = "angry" /\ slocal.audio_state = "silent"
               /\ slocal.teacher_pace = "too_fast" /\ slocal.teacher_tone = "monotone")
              => slocal.score = 0
    /\ (dashboard_data.timestamp > 0 /\ data_lock = Free) =>
         dashboard_data.engagement_score =
            C11_score(dashboard_data.emotion, dashboard_data.audio_state,
                      dashboard_data.teacher_pace, dashboard_data.teacher_tone)

\* a commit of happy/active/good/engaging
C11_Witness ==
    /\ dashboard_data.timestamp > 0
    /\ data_lock = Free
    /\ dashboard_data.emotion = "happy"
    /\ dashboard_data.audio_state = "active"
    /\ dashboard_data.teacher_pace = "good"
    /\ dashboard_data.teacher_tone = "engaging"
    /\ dashboard_data.engagement_score = 95

\* positions of the call at which pace_result is set
PaceDone == {"tone", "nudge", "return", "returned"}

\* C12: on a transcribed recording of word_count words and `seconds`
\* seconds the pace status is the first match of: wpm > 180 too_fast,
\* wpm > 160 fast, wpm < 100 too_slow, wpm < 120 slow, else good, where
\* wpm = word_count / (seconds / 60), and wpm = 0 when seconds <= 0; so 181
\* gives too_fast, 170 fast, 140 good, 110 slow, 90 too_slow, and 300 words
\* in 1.5 minutes give wpm 200 and too_fast.
C12_PaceByThresholds ==
    (frame.pc \in PaceDone /\ frame.tr = "ok") =>
        LET wc == frame.word_count
            s == frame.seconds
            st == frame.pace_result.status
        IN  /\ st \in {"too_fast", "fast", "good", "slow", "too_slow"}
            /\ s > 0 =>
                 /\ st = "too_fast" <=> wc * 60 > 180 * s
                 /\ st = "fast" <=> (wc * 60 > 160 * s /\ wc * 60 <= 180 * s)
                 /\ st = "too_slow" <=> wc * 60 < 100 * s
                 /\ st = "slow" <=> (wc * 60 >= 100 * s /\ wc * 60 < 120 * s)
                 /\ st = "good" <=> (wc * 60 >= 120 * s /\ wc * 60 <= 160 * s)
            /\ s <= 0 => (frame.pace_result.wpm = 0 /\ st = "too_slow")
            /\ (s = 60 /\ wc = 181) => st = "too_fast"
            /\ (s = 60 /\ wc = 170) => st = "fast"
            /\ (s = 60 /\ wc = 140) => st = "good"
            /\ (s = 60 /\ wc = 110) => st = "slow"
            /\ (s = 60 /\ wc = 90) => st = "too_slow"
            /\ (s = 90 /\ wc = 300) => (st = "too_fast" /\ frame.pace_result.wpm = 200)

\* 300 words in 1.5 minutes
C12_Witness ==
    /\ frame.pc = "returned"
    /\ frame.word_count = 300
    /\ frame.seconds = 90
    /\ frame.pace_result = [status |-> "too_fast", wpm |-> 200, word_count |-> 300]

\* positions of the call at which nudge is set by _generate_speech_nudge
NudgeDone == {"return", "returned"}

C13_TooFast == "You're speaking too fast (%d WPM). Slow down to help students absorb the material."
C13_RateTemplates ==
    {C13_TooFast,
     "Speaking a bit quickly (%d WPM). Consider slowing down slightly.",
     "Speaking quite slowly (%d WPM). You can speed up a bit to maintain engagement.",
     "Pace is a bit slow (%d WPM). Try adding more energy."}
C13_Unclear == "Could not analyze speech - please speak more clearly or check your microphone."
C13_Monotone == "Your tone sounds monotonous. Try varying your pitch and enthusiasm!"
C13_TooQuiet == "You're speaking too quietly. Increase your volume or check your microphone."
C13_TooLoud == "Volume is quite high. Lower it slightly for comfort."
C13_AllGood == << <<"Great speech pace and tone! Keep it up!">> >>

\* the pace-state messages that embed `wpm`, and the one that embeds nothing
C13_PaceMessages(wpm) == {<<tpl, wpm>> : tpl \in C13_RateTemplates} \cup {<<C13_Unclear>>}
C13_MonotonePart(tone_result) ==
    IF tone_result.monotone THEN << <<C13_Monotone>> >> ELSE << >>
C13_EnergyPart(tone_result) ==
    IF tone_result.energy_status = "too_quiet" THEN << <<C13_TooQuiet>> >>
    ELSE IF tone_result.energy_status = "too_loud" THEN << <<C13_TooLoud>> >>
    ELSE << >>
C13_Join(parts) == IF parts = << >> THEN C13_AllGood ELSE parts

\* C13: the speech nudge is, in this order, at most one pace-state message
\* embedding the wpm of the pace result, the monotone message iff monotone
\* is true, the energy message iff energy_status is too_quiet or too_loud,
\* and it is the all-good message iff none of them qualified.  too_fast
\* yields the too-fast message with its wpm first; pace good yields no pace
\* message, so good pace, monotone and energy_status quiet yield only the
\* monotone message.
C13_NudgeParts ==
    frame.pc \in NudgeDone =>
        LET pr == frame.pace_result
            tail == C13_MonotonePart(frame.tone_result) \o C13_EnergyPart(frame.tone_result)
        IN  /\ \E P \in {<< >>} \cup {<<m>> : m \in C13_PaceMessages(pr.wpm)} :
                  frame.nudge = C13_Join(P \o tail)
            /\ pr.status = "too_fast" => frame.nudge = << <<C13_TooFast, pr.wpm>> >> \o tail
            /\ pr.status = "good" => frame.nudge = C13_Join(tail)
            /\ (pr.status = "good" /\ frame.tone_result.monotone
                  /\ frame.tone_result.energy_status = "quiet")
                 => frame.nudge = << <<C13_Monotone>> >>

\* too_fast at 200 wpm on a flat, too quiet voice: three messages
C13_Witness ==
    /\ frame.pc = "returned"
    /\ frame.pace_result.status = "too_fast"
    /\ frame.nudge = << <<C13_TooFast, 200>>, <<C13_Monotone>>, <<C13_TooQuiet>> >>

\* positions of the call at which tone_result is set
ToneDone == {"nudge", "return", "returned"}

\* C14: the tone result has exactly one energy_status, chosen by energy <
\* 0.02 too_quiet, else < 0.05 quiet, else > 0.15 too_loud, else good, and
\* exactly one status, monotone iff pitch_variation < 0.1 and engaging
\* otherwise; with no voiced sample pitch_variation is 0 and the status is
\* monotone; a failure to load or extract gives status unknown, energy 0,
\* pitch_variation 0, energy_status unknown and monotone false.  Energy is in
\* thousandths and pitch_variation is the fraction of its square, so < 0.1
\* is 100 * num < den.
C14_ToneByThresholds ==
    frame.pc \in ToneDone =>
        LET r == frame.tone_result
            e == frame.energy
        IN  /\ frame.tone_ok =>
                 /\ r.energy = e
                 /\ r.energy_status =
                      (IF e < 20 THEN "too_quiet" ELSE IF e < 50 THEN "quiet"
                       ELSE IF e > 150 THEN "too_loud" ELSE "good")
                 /\ r.status \in {"monotone", "engaging"}
                 /\ r.status = "monotone" <=>
                      100 * r.pitch_variation[1] < r.pitch_variation[2]
                 /\ r.monotone <=> r.status = "monotone"
                 /\ frame.pitch_values = << >> =>
                      (r.pitch_variation = <<0, 1>> /\ r.status = "monotone")
                 /\ frame.pitch_values = <<100, 120>> => r.status = "monotone"
                 /\ frame.pitch_values = <<100, 125>> => r.status = "engaging"
            /\ ~frame.tone_ok =>
                 r = [status |-> "unknown", energy |-> 0, energy_status |-> "unknown",
                      pitch_variation |-> <<0, 1>>, monotone |-> FALSE]

\* a too quiet recording with no voiced sample
C14_Witness ==
    /\ frame.pc = "returned"
    /\ frame.tone_ok
    /\ frame.pitch_values = << >>
    /\ frame.tone_result.status = "monotone"
    /\ frame.tone_result.energy_status = "too_quiet"

C15_Low == "Low engagement! Try asking a question or showing an example."
C15_Dropping == "Engagement dropping. Consider a quick activity or recap."
C15_Good == "All good! Keep going."

\* the nudge the thresholds select for the score of a snapshot
C15_Matches(d) ==
    d.nudge = (IF d.engagement_score < 40 THEN C15_Low
               ELSE IF d.engagement_score < 60 THEN C15_Dropping ELSE C15_Good)

\* C15: after the first student commit, in every snapshot that a reader can
\* see (the dict while the student loop is not inside its commit, and every
\* copy GET /data serves), nudge is the message the thresholds select for
\* engagement_score: below 40 the warning, below 60 the caution, else all
\* good.
C15_NudgeMatchesScore ==
    /\ (dashboard_data.timestamp > 0 /\ data_lock # Student) => C15_Matches(dashboard_data)
    /\ (gpc = "copied" /\ gresp.timestamp > 0) => C15_Matches(gresp)

\* a speech cycle committed after a student commit of a low score
C15_Witness ==
    /\ dashboard_data.timestamp > 0
    /\ data_lock = Free
    /\ dashboard_data.status = "Analysis complete!"
    /\ dashboard_data.engagement_score < 40
    /\ dashboard_data.nudge = C15_Low

\* C16: an iteration of the student loop that finds busy_flag true at its
\* peek changes no field of the dict: its steps are the peek and the return
\* from the 5 s sleep, the second leads back to the peek and to nothing
\* else, and that return waits for nothing, whatever the flag is.
C16_BusyIterationWritesNothing ==
    [][/\ (spc = "peek" /\ spc' = "sleep5_locked") =>
            (busy_flag /\ dashboard_data' = dashboard_data)
       /\ spc = "sleep5_locked" => ENABLED SSkip
       /\ (spc = "sleep5_locked" /\ spc' # spc) =>
            /\ spc' = "peek"
            /\ dashboard_data' = dashboard_data
            /\ slocal' = slocal
            /\ busy_flag']_vars

\* the student loop found the flag true while the speech thread waits for
\* the lock at its commit
C16_Witness ==
    /\ spc = "sleep5_locked"
    /\ busy_flag
    /\ \E t \in Tasks : tpc[t] = "commit"

\* positions of an iteration of the student loop that ends in the handler
\* of line 125
FailingIteration == {"peek", "status", "emotion", "audio", "except"}

\* the texts f'Error: {str(e)}' can take
C17_ErrorTexts == {"Error: PortAudioError"}

\* C17: an exception of an external source in a student iteration is
\* caught in the loop.  The steps of that iteration change no field of the
\* dict but status; the handler is entered from the external call, can
\* always run once data_lock is free, writes an error text to status and
\* leads back to the top of the loop.
C17_StudentErrorKeepsSnapshot ==
    [][/\ (spc \in FailingIteration /\ spc' # spc) =>
            [dashboard_data' EXCEPT !.status = dashboard_data.status] = dashboard_data
       /\ (spc' = "except" /\ spc # "except") =>
            (spc = "audio" /\ dashboard_data' = dashboard_data)
       /\ (spc = "except" /\ CanAcquire(data_lock)) => ENABLED SExcept
       /\ (spc = "except" /\ spc' # spc) =>
            /\ spc' = "peek"
            /\ dashboard_data'.status \in C17_ErrorTexts]_vars

\* the handler has written its text over the snapshot a speech cycle left
C17_Witness ==
    /\ spc = "peek"
    /\ dashboard_data.status \in C17_ErrorTexts
    /\ dashboard_data.teacher_pace = "too_fast"
    /\ dashboard_data.engagement_score = BaseScore

\* C18: a pace result with status error puts a pace-state message first in
\* the speech nudge, and the all-good message is returned only when the
\* pace status is good, monotone is false and energy_status is neither
\* too_quiet nor too_loud.
C18_ErrorPaceHasMessage ==
    frame.pc \in NudgeDone =>
        /\ frame.pace_result.status = "error" =>
             /\ frame.nudge # C13_AllGood
             /\ Head(frame.nudge)[1] \notin {C13_Monotone, C13_TooQuiet, C13_TooLoud}
        /\ frame.nudge = C13_AllGood =>
             /\ frame.pace_result.status = "good"
             /\ ~frame.tone_result.monotone
             /\ frame.tone_result.energy_status \notin {"too_quiet", "too_loud"}

\* positions of the student commit after the write of line 115
ScoreWritten == {"commit_116", "commit_117", "commit_118", "commit_119", "commit_120"}

\* C19: the score a student commit writes is computed from the teacher_pace
\* and teacher_tone the dict holds at that commit: while the commit is under
\* way the dict still has the values read at lines 85 and 87, and the score
\* of line 115 is the clamped sum for the teacher fields beside it.
C19_ScoreFromStoredTeacherFields ==
    spc \in ScoreWritten =>
        /\ dashboard_data.teacher_pace = slocal.teacher_pace
        /\ dashboard_data.teacher_tone = slocal.teacher_tone
        /\ dashboard_data.engagement_score =
              C11_score(slocal.emotion, slocal.audio_state,
                        dashboard_data.teacher_pace, dashboard_data.teacher_tone)

\* the texts a speech cycle writes to status before its terminal commit
C20_ProgressTexts == {"Get ready to speak...", "Recording your speech..."}

\* C20: in every snapshot with busy_flag true (the dict while no thread is
\* inside a with block, and every copy GET /data serves) status is one of
\* the progress texts of the speech cycle.
C20_BusyStatusIsProgress ==
    /\ (busy_flag /\ data_lock = Free) => dashboard_data.status \in C20_ProgressTexts
    /\ (gpc = "copied" /\ gresp.analyzing_speech) => gresp.status \in C20_ProgressTexts

\* a pace result with a measured rate: the recording was transcribed
MeasuredPace == frame.pc \in PaceDone /\ frame.tr = "ok"

\* C21: for every pace result with a measured rate the reported wpm agrees
\* with the reported status under the thresholds of the status: too_fast
\* implies wpm > 180, fast 160 < wpm <= 180, too_slow wpm < 100, slow
\* 100 <= wpm < 120, good 120 <= wpm <= 160.
C21_WpmAgreesWithStatus ==
    MeasuredPace =>
        LET st == frame.pace_result.status
            wpm == frame.pace_result.wpm
        IN  /\ st = "too_fast" => wpm > 180
            /\ st = "fast" => (160 < wpm /\ wpm <= 180)
            /\ st = "too_slow" => wpm < 100
            /\ st = "slow" => (100 <= wpm /\ wpm < 120)
            /\ st = "good" => (120 <= wpm /\ wpm <= 160)

\* C21, amended: the reported wpm is the rate with its fraction cut off, so
\* on the fast side it can be the threshold itself: too_fast implies
\* wpm >= 180 and fast implies 160 <= wpm <= 180; too_slow implies
\* wpm < 100, slow 100 <= wpm < 120 and good 120 <= wpm <= 160.
C21_TruncatedWpmWithinBand ==
    MeasuredPace =>
        LET st == frame.pace_result.status
            wpm == frame.pace_result.wpm
        IN  /\ st = "too_fast" => wpm >= 180
            /\ st = "fast" => (160 <= wpm /\ wpm <= 180)
            /\ st = "too_slow" => wpm < 100
            /\ st = "slow" => (100 <= wpm /\ wpm < 120)
            /\ st = "good" => (120 <= wpm /\ wpm <= 160)

\* 271 words in 90 s: 180.67 words per minute, reported as too_fast at 180
C21_Witness ==
    /\ frame.pc = "returned"
    /\ frame.word_count = 271
    /\ frame.seconds = 90
    /\ frame.pace_result.status = "too_fast"
    /\ frame.pace_result.wpm = 180
    /\ frame.nudge[1] = <<C13_TooFast, 180>>

====
